---------------------------- MODULE Spec2Model ----------------------------
(***************************************************************************)
(* Model of the evaluation engine of metrics.py (class Metrics):           *)
(*   evaluate          dispatch on opts['dataset']                         *)
(*   _evaluate_vec     kernel-density log-likelihood and Coverage          *)
(*   _evaluate_mnist   classifier-based mode coverage, 10 labels           *)
(*   _evaluate_mnist3  the same for three stacked digits, 1000 labels      *)
(*                                                                         *)
(* The statistics are modelled as exact rationals [num, den] with den > 0;  *)
(* NaN is the record with den = 0.  Pixel intensities are binary floating  *)
(* point numbers [mant, exp].  Probabilities and the classification        *)
(* threshold are counted in thousandths.                                   *)
(*                                                                         *)
(* An image is modelled by what the pre-trained classifier reads from it   *)
(* (the predicted digit and the maximal soft-max probability) and by one   *)
(* representative pixel intensity.  The kernel density backend is an       *)
(* external collaborator: the log-densities it returns are drawn from a    *)
(* small set of values.                                                    *)
(***************************************************************************)
EXTENDS Integers, Sequences, FiniteSets, TLC

VARIABLES
    self,                   \* the fields of the Metrics instance
    caller,                 \* the caller's arrays, as the call leaves them
    pc,                     \* position of the (single-threaded) evaluation
    args,                   \* the caller's arguments of the current evaluate
    real_points,            \* locals of the running evaluator ...
    fake_points,
    validation_fake_points,
    num_fake,
    idx,                    \* loop counter of the batch loop / the grid loop
    result,                 \* list of per-batch label arrays
    result_probs,           \* list of per-batch probability arrays
    result_is_confident,    \* list of per-batch confidence flags
    requests,               \* sess.run requests sent to the classifier
    sess,                   \* the tf.Session of the call
    modes,                  \* gathered / points_to_plot of the mode loop
    phat,                   \* histogram of the confident labels
    num_real,               \* locals of _evaluate_vec ...
    bandwidth,
    b_grid,
    max_score,
    grid_log,               \* what the backend answered in the grid search
    kde,                    \* the KernelDensity of the final fit
    model_log_density,
    real_points_log_density,
    plots,                  \* calls of _make_plots_pics and what they draw
    ret                     \* what the call returned, or the error raised

discVars == <<result, result_probs, result_is_confident, requests, modes,
              phat, plots>>
vecVars == <<num_real, bandwidth, b_grid, max_score, grid_log, kde,
             model_log_density, real_points_log_density>>
callerVars == <<self, caller>>
vars == <<self, caller, pc, args, real_points, fake_points, validation_fake_points,
          num_fake, idx, result, result_probs, result_is_confident,
          requests, sess, modes, phat, plots, ret, num_real, bandwidth, b_grid,
          max_score, grid_log, kde, model_log_density,
          real_points_log_density>>

-----------------------------------------------------------------------------
(* Numbers *)

Min(a, b) == IF a <= b THEN a ELSE b
Max(a, b) == IF a >= b THEN a ELSE b
Abs(a) == IF a < 0 THEN -a ELSE a

RECURSIVE Gcd(_, _)
Gcd(a, b) == IF b = 0 THEN a ELSE Gcd(b, a % b)

\* a float value as a rational in lowest terms
Rat(n, d) ==
    LET g == Gcd(Abs(n), Abs(d))
    IN  IF g = 0 THEN [num |-> 0, den |-> 0]
        ELSE [num |-> n \div g, den |-> d \div g]
NaN == [num |-> 0, den |-> 0]
IsNaN(x) == x.den = 0
\* IEEE comparisons: any comparison with NaN is false
Leq(x, y) == ~IsNaN(x) /\ ~IsNaN(y) /\ x.num * y.den <= y.num * x.den
Lt(x, y)  == ~IsNaN(x) /\ ~IsNaN(y) /\ x.num * y.den <  y.num * x.den

RECURSIVE Pow2(_)
Pow2(k) == IF k = 0 THEN 1 ELSE 2 * Pow2(k - 1)

\* python ints: a natural number of any size, as the list of its digits to
\* the base Limb, lowest first, without leading zeros (0 is the empty list)
Limb == Pow2(14)
RECURSIVE BigTrim(_)
BigTrim(a) ==
    IF a = <<>> THEN a
    ELSE IF a[Len(a)] = 0 THEN BigTrim(SubSeq(a, 1, Len(a) - 1))
    ELSE a
RECURSIVE BigOf(_)
BigOf(n) == IF n = 0 THEN <<>> ELSE <<n % Limb>> \o BigOf(n \div Limb)
RECURSIVE BigToInt(_)
BigToInt(a) == IF a = <<>> THEN 0 ELSE a[1] + Limb * BigToInt(Tail(a))
Digit(a, i) == IF i <= Len(a) THEN a[i] ELSE 0
BigAdd(a, b) ==
    LET n == Max(Len(a), Len(b)) + 1
        RECURSIVE Go(_, _)
        Go(i, carry) ==
            IF i > n THEN <<>>
            ELSE LET t == Digit(a, i) + Digit(b, i) + carry
                 IN  <<t % Limb>> \o Go(i + 1, t \div Limb)
    IN  BigTrim(Go(1, 0))
\* a - b for a >= b
BigSub(a, b) ==
    LET RECURSIVE Go(_, _)
        Go(i, borrow) ==
            IF i > Len(a) THEN <<>>
            ELSE LET t == Digit(a, i) - Digit(b, i) - borrow
                 IN  IF t < 0 THEN <<t + Limb>> \o Go(i + 1, 1)
                     ELSE <<t>> \o Go(i + 1, 0)
    IN  BigTrim(Go(1, 0))
\* a * b for factors of at most four digits
BigMul(a, b) ==
    LET RECURSIVE Col(_, _)
        Col(k, i) ==
            IF i > Len(a) THEN 0
            ELSE (IF 1 <= k + 1 - i /\ k + 1 - i <= Len(b)
                  THEN a[i] * b[k + 1 - i] ELSE 0) + Col(k, i + 1)
        RECURSIVE Go(_, _)
        Go(k, carry) ==
            IF k > Len(a) + Len(b) THEN <<>>
            ELSE LET t == Col(k, 1) + carry
                 IN  <<t % Limb>> \o Go(k + 1, t \div Limb)
    IN  BigTrim(Go(1, 0))
BigOdd(a) == a # <<>> /\ a[1] % 2 = 1
BigShr1(a) ==
    BigTrim([i \in 1..Len(a) |->
                (a[i] \div 2) + ((Digit(a, i + 1) % 2) * (Limb \div 2))])
BigShl1(a) ==
    BigTrim([i \in 1..(Len(a) + 1) |->
                ((Digit(a, i) * 2) % Limb)
                    + (IF i > 1 THEN a[i - 1] \div (Limb \div 2) ELSE 0)])
\* a * 2^k
RECURSIVE BigShl(_, _)
BigShl(a, k) ==
    IF k = 0 \/ a = <<>> THEN a
    ELSE IF k >= 14 THEN BigShl(<<0>> \o a, k - 14)
    ELSE BigShl(BigShl1(a), k - 1)
\* a \div 2^k
RECURSIVE BigShr(_, _)
BigShr(a, k) ==
    IF k = 0 \/ a = <<>> THEN a
    ELSE IF k >= 14 THEN BigShr(Tail(a), k - 14)
    ELSE BigShr(BigShr1(a), k - 1)
RECURSIVE BitLen(_)
BitLen(n) == IF n = 0 THEN 0 ELSE 1 + BitLen(n \div 2)
BigBitLen(a) == IF a = <<>> THEN 0 ELSE 14 * (Len(a) - 1) + BitLen(a[Len(a)])
\* -1, 0, 1 as a < b, a = b, a > b
BigCmp(a, b) ==
    LET RECURSIVE Go(_)
        Go(i) == IF i = 0 THEN 0
                 ELSE IF a[i] < b[i] THEN -1
                 ELSE IF a[i] > b[i] THEN 1
                 ELSE Go(i - 1)
    IN  IF Len(a) < Len(b) THEN -1
        ELSE IF Len(a) > Len(b) THEN 1
        ELSE Go(Len(a))
\* the quotient and the remainder of a by a python int 0 < n < 2^17
BigDivMod(a, n) ==
    LET RECURSIVE Go(_, _)
        Go(i, rem) ==
            IF i = 0 THEN [quot |-> <<>>, rem |-> rem]
            ELSE LET t    == rem * Limb + a[i]
                     rest == Go(i - 1, t % n)
                 IN  [quot |-> Append(rest.quot, t \div n), rem |-> rest.rem]
        r == Go(Len(a), 0)
    IN  [quot |-> BigTrim(r.quot), rem |-> r.rem]

\* numpy float64 (IEEE 754 binary64): the pixel arrays and the arithmetic
\* of np.percentile.  A number is +-mant * 2^exp with mant odd (0 is the
\* empty mant with exp = 0); the format holds MantBits significant bits and
\* every operation returns the number of the format nearest to the exact
\* result, ties to the even significand.  The exponent range is not
\* modelled: the values stay far from overflow and from the subnormals.
MantBits == 53
RECURSIVE F64(_, _, _)
F64(neg, m, e) ==
    IF m = <<>> THEN [neg |-> FALSE, mant |-> <<>>, exp |-> 0]
    ELSE IF m[1] = 0 THEN F64(neg, Tail(m), e + 14)
    ELSE IF ~BigOdd(m) THEN F64(neg, BigShr1(m), e + 1)
    ELSE [neg |-> neg, mant |-> m, exp |-> e]
\* the float of a python int / of m * 2^e for python ints m, e
Fl(m, e) == F64(m < 0, BigOf(Abs(m)), e)
FZero == Fl(0, 0)
FHalf == Fl(1, -1)
FOne == Fl(1, 0)
FIsZero(x) == x.mant = <<>>
\* one above the position of the leading bit: 2^(Top - 1) <= |x| < 2^Top
Top(x) == x.exp + BigBitLen(x.mant)

\* +-(m * 2^e, plus a positive rest below 2^e when sticky), rounded
FRound(neg, m, e, sticky) ==
    LET RECURSIVE Go(_, _, _)
        Go(n, k, st) ==
            IF k > 14 THEN Go(Tail(n), k - 14, st \/ n[1] # 0)
            ELSE IF k > 1 THEN Go(BigShr1(n), k - 1, st \/ BigOdd(n))
            ELSE LET q  == BigShr1(n)
                     up == BigOdd(n) /\ (st \/ BigOdd(q))
                 IN  IF up THEN BigAdd(q, <<1>>) ELSE q
        len == BigBitLen(m)
    IN  IF len <= MantBits THEN F64(neg, m, e)
        ELSE F64(neg, Go(m, len - MantBits, sticky), e + len - MantBits)

FNeg(x) == IF FIsZero(x) THEN x ELSE [x EXCEPT !.neg = ~@]
\* the exact sum of two numbers, as sign, python int and exponent
SignedSum(xneg, mx, yneg, my, e, c) ==
    IF xneg = yneg
    THEN [neg |-> xneg, mant |-> BigAdd(mx, my), exp |-> e]
    ELSE IF c = 0 THEN [neg |-> FALSE, mant |-> <<>>, exp |-> 0]
    ELSE IF c > 0 THEN [neg |-> xneg, mant |-> BigSub(mx, my), exp |-> e]
    ELSE [neg |-> yneg, mant |-> BigSub(my, mx), exp |-> e]
AlignedSum(xneg, mx, yneg, my, e) ==
    SignedSum(xneg, mx, yneg, my, e, BigCmp(mx, my))
ExactSum(x, y) ==
    LET e == Min(x.exp, y.exp)
    IN  AlignedSum(x.neg, BigShl(x.mant, x.exp - e),
                   y.neg, BigShl(y.mant, y.exp - e), e)
\* the number of the format nearest to an exact sign, python int and exponent
FRoundExact(t) == FRound(t.neg, t.mant, t.exp, FALSE)
\* x + y, x - y, x * y
FAdd(x, y) ==
    IF FIsZero(y) THEN x
    ELSE IF FIsZero(x) THEN y
    ELSE FRoundExact(ExactSum(x, y))
FSub(x, y) == FAdd(x, FNeg(y))
FMul(x, y) ==
    IF FIsZero(x) \/ FIsZero(y) THEN FZero
    ELSE FRound(x.neg # y.neg, BigMul(x.mant, y.mant), x.exp + y.exp, FALSE)
\* float(k) / n for python ints k and 0 < n < 2^17
FRoundQuot(neg, d, shift) == FRound(neg, d.quot, -shift, d.rem # 0)
FDivInt(k, n) ==
    LET shift == 31 + 17 + MantBits + 2
    IN  IF k = 0 THEN FZero
        ELSE FRoundQuot(k < 0, BigDivMod(BigShl(BigOf(Abs(k)), shift), n),
                        shift)
\* x <= y, x < y
FSign(t) == IF t.mant = <<>> THEN 0 ELSE IF t.neg THEN -1 ELSE 1
FCmp(x, y) == FSign(ExactSum(x, FNeg(y)))
FLeq(x, y) == FCmp(x, y) <= 0
FLt(x, y) == FCmp(x, y) < 0
\* int(np.floor(x)) for x >= 0
FFloor(x) ==
    IF x.exp >= 0 THEN BigToInt(BigShl(x.mant, x.exp))
    ELSE BigToInt(BigShr(x.mant, -x.exp))

\* python's None, and an array argument that may be None
None == [tag |-> "None"]
IsNone(x) == x = None
Arr(a) == [tag |-> "array", a |-> a]

-----------------------------------------------------------------------------
(* Sequences as numpy arrays / python lists *)

Range(s) == {s[i] : i \in 1..Len(s)}

\* python s[lo:hi] for 0 <= lo (0-based, half open, clamped to the length)
PySlice(s, lo, hi) ==
    LET h == Min(hi, Len(s))
    IN  IF lo >= h THEN <<>> ELSE [i \in 1..(h - lo) |-> s[lo + i]]

\* np.hstack / np.vstack of a list of arrays
RECURSIVE Stack(_)
Stack(arrs) == IF arrs = <<>> THEN <<>> ELSE Head(arrs) \o Stack(Tail(arrs))

RECURSIVE SumSeq(_)
SumSeq(s) == IF s = <<>> THEN 0 ELSE Head(s) + SumSeq(Tail(s))

SeqsUpTo(S, n) == UNION {[1..k -> S] : k \in 0..n}

-----------------------------------------------------------------------------
(* Images, the classifier, the rescaling *)

Image(d, p) == [digit |-> d, prob |-> p]
\* a fake point of an image dataset: its sub-images (one for mnist, three
\* for mnist3) and a pixel intensity
Point(subs, px) == [subs |-> subs, px |-> px]

\* "name = expression" binds the name to a new array; the array the name
\* was bound to, which the caller still holds, keeps its contents
Rebound_InPlace(object, value) == value
Rebound(object, value) == object

\* x / 2. + 0.5: the division by 2. is exact, the addition rounds
FHalve(x) == IF FIsZero(x) THEN x ELSE [x EXCEPT !.exp = @ - 1]
FDouble(x) == IF FIsZero(x) THEN x ELSE [x EXCEPT !.exp = @ + 1]
RescaleForward(x) == FAdd(FHalve(x), FHalf)
\* 2. * (y - 0.5): the subtraction rounds, the multiplication by 2. is exact
RescaleBack_NoShift(y) == FDouble(y)
RescaleBack(y) == FDouble(FSub(y, FHalf))

\* fake_points / 2. + 0.5, elementwise
ForwardAll(points) ==
    [i \in 1..Len(points) |-> [points[i] EXCEPT !.px = RescaleForward(@)]]
\* 2. * (fake_points - 0.5), elementwise
BackAll(points) ==
    [i \in 1..Len(points) |-> [points[i] EXCEPT !.px = RescaleBack(@)]]
\* "if x is not None: x = x / 2. + 0.5"
ForwardOpt(points) ==
    IF IsNone(points) THEN None ELSE Arr(ForwardAll(points.a))
\* "if x is not None: x = 2. * (x - 0.5)"
BackOpt(points) ==
    IF IsNone(points) THEN None ELSE Arr(BackAll(points.a))

\* sess.run([trained_net, prob_max], feed_dict={input_ph: input, ...}):
\* the predicted digit and the maximal class probability of every image
SessRun(input) ==
    [res  |-> [i \in 1..Len(input) |-> input[i].digit],
     prob |-> [i \in 1..Len(input) |-> input[i].prob]]

\* np.split(batch_fake, 3, axis=...)[j - 1]
SplitSub(batch_fake, j) == [i \in 1..Len(batch_fake) |-> batch_fake[i].subs[j]]

\* int(np.ceil((num_fake + 0.) / batch_size))
BatchesNum_Floor(n, batch_size) == n \div batch_size
BatchesNum(n, batch_size) ==
    IF n % batch_size = 0 THEN n \div batch_size ELSE n \div batch_size + 1

\* 100 * _res1 + 10 * _res2 + _res3
CompositeLabel_Flat(r1, r2, r3) == 10 * r1 + 10 * r2 + r3
CompositeLabel(r1, r2, r3) == 100 * r1 + 10 * r2 + r3

\* prob > thresh
Exceeds(prob, thresh) == prob > thresh

\* (prob1 > thresh) * (prob2 > thresh) * (prob3 > thresh)
AllExceed_FirstTwo(p1, p2, p3, thresh) ==
    Exceeds(p1, thresh) /\ Exceeds(p2, thresh)
AllExceed(p1, p2, p3, thresh) ==
    Exceeds(p1, thresh) /\ Exceeds(p2, thresh) /\ Exceeds(p3, thresh)

-----------------------------------------------------------------------------
(* The statistics of the discrete evaluators *)

\* digits[result_is_confident]
Masked_All(digits, mask) == digits
Masked(digits, mask) ==
    LET RECURSIVE Go(_)
        Go(i) == IF i > Len(digits) THEN <<>>
                 ELSE IF mask[i] THEN <<digits[i]>> \o Go(i + 1)
                 ELSE Go(i + 1)
    IN  Go(1)

\* np.sum(result_is_confident)
CountTrue(mask) == Cardinality({i \in 1..Len(mask) : mask[i]})

\* np.unique(a)
Unique(a) == Range(a)

\* np.bincount(a, minlength=n): the histogram over the labels 0..n-1, kept
\* by its non-zero entries (every other label of 0..n-1 counts 0)
Bincount(a, minlength) ==
    [size |-> minlength,
     hits |-> [l \in Range(a) |-> Cardinality({i \in 1..Len(a) : a[i] = l})]]
HistAt(h, l) == IF l \in DOMAIN h.hits THEN h.hits[l] ELSE 0
HistSum(h) ==
    LET RECURSIVE Go(_)
        Go(S) == IF S = {} THEN 0
                 ELSE LET l == CHOOSE x \in S : TRUE
                      IN  h.hits[l] + Go(S \ {l})
    IN  Go(DOMAIN h.hits)
\* how many of the size entries are <= c (c >= 0)
HistCountLeq(h, c) ==
    (h.size - Cardinality(DOMAIN h.hits))
    + Cardinality({l \in DOMAIN h.hits : h.hits[l] <= c})
\* entry k (0-based) of the sorted histogram
HistSorted(h, k) ==
    LET vals == {0} \cup {h.hits[l] : l \in DOMAIN h.hits}
    IN  CHOOSE v \in vals :
            /\ HistCountLeq(h, v) > k
            /\ \A w \in vals : w < v => HistCountLeq(h, w) <= k

\* np.percentile(a, 5) of n entries, as the numpy of python 2 computes it
\* (the code needs python 2: xrange): the position q * (n - 1) for
\* q = 5 / 100., the entries below and above it, and their weights
PercentileQ == FDivInt(5, 100)
PercentileSplit(n, indices_below, weights_above) ==
    [indices_below |-> indices_below,
     indices_above |-> Min(indices_below + 1, n - 1),
     weights_below |-> FSub(FOne, weights_above),
     weights_above |-> weights_above]
PercentileAt(n, indices, indices_below) ==
    PercentileSplit(n, indices_below, FSub(indices, Fl(indices_below, 0)))
PercentileIndices(n, indices) == PercentileAt(n, indices, FFloor(indices))
PercentileWeights(n) == PercentileIndices(n, FMul(PercentileQ, Fl(n - 1, 0)))
\* x1 * weights_below + x2 * weights_above
Interpolate(x1, x2, w) ==
    FAdd(FMul(x1, w.weights_below), FMul(x2, w.weights_above))

\* np.percentile(phat, 5) for phat = (phat + 0.) / np.sum(phat)
PercentileOfHist(h, total, w) ==
    Interpolate(FDivInt(HistSorted(h, w.indices_below), total),
                FDivInt(HistSorted(h, w.indices_above), total), w)
Percentile5(h) == PercentileOfHist(h, HistSum(h), PercentileWeights(h.size))

\* np.mean(phat <= threshold): the entries of phat are count / total
RatioNotCovered_Strict(h, threshold) ==
    LET total == HistSum(h)
        counts == {h.hits[l] : l \in DOMAIN h.hits}
        below == {c \in counts : FLt(FDivInt(c, total), threshold)}
        m == Cardinality({l \in DOMAIN h.hits : h.hits[l] \in below})
             + (IF FLt(FZero, threshold)
                THEN h.size - Cardinality(DOMAIN h.hits) ELSE 0)
    IN  Rat(m, h.size)
RatioNotCovered(h, threshold) ==
    LET total == HistSum(h)
        counts == {h.hits[l] : l \in DOMAIN h.hits}
        below == {c \in counts : FLeq(FDivInt(c, total), threshold)}
        m == Cardinality({l \in DOMAIN h.hits : h.hits[l] \in below})
             + (IF FLeq(FZero, threshold)
                THEN h.size - Cardinality(DOMAIN h.hits) ELSE 0)
    IN  Rat(m, h.size)

\* 1. - x
OneMinus(x) == IF IsNaN(x) THEN NaN ELSE Rat(x.den - x.num, x.den)

\* np.mean over every entry of an array of probabilities (thousandths)
MeanProb(flat) == Rat(SumSeq(flat), 1000 * Len(flat))

\* utils.js_div_uniform(p, num_cat): the Jensen-Shannon divergence between
\* the normalised histogram of p over num_cat labels and the uniform
\* distribution.  The value is determined by num_cat and the multiset of
\* relative frequencies, which is what the term keeps.
JsDivUniform(p, num_cat) ==
    LET h == Bincount(p, num_cat)
        total == HistSum(h)
        freqs == {Rat(h.hits[l], total) : l \in DOMAIN h.hits}
    IN  [tag |-> "js_div_uniform", num_cat |-> num_cat,
         freqs |-> [f \in freqs |->
                      Cardinality({l \in DOMAIN h.hits : Rat(h.hits[l], total) = f})]]
Float(x) == [tag |-> "float", val |-> x]

\* the loop "for (idx, dig) in enumerate(list(digits))": one fake point per
\* first confident occurrence of a label
GatherModes_EveryConfident(digits, is_confident, points) ==
    [gathered |-> Masked(digits, is_confident),
     points_to_plot |-> Masked(points, is_confident)]
GatherModes(digits, is_confident, points) ==
    LET RECURSIVE Go(_, _)
        Go(i, acc) ==
            IF i > Len(digits) THEN acc
            ELSE IF digits[i] \notin Range(acc.gathered) /\ is_confident[i]
                 THEN Go(i + 1,
                         [gathered |-> Append(acc.gathered, digits[i]),
                          points_to_plot |-> Append(acc.points_to_plot, points[i])])
                 ELSE Go(i + 1, acc)
    IN  Go(1, [gathered |-> <<>>, points_to_plot |-> <<>>])

\* np.bincount(digits[result_is_confident], minlength=num_labels); the
\* division by np.sum(phat) is made where the histogram is read
ConfidentHist(digits, is_confident, num_labels) ==
    Bincount(Masked(digits, is_confident), num_labels)

\* the branch np.sum(result_is_confident) == 0: C_actual = 0., C = 0., JS = 2.
NoConfidentResult_Zero(conf) ==
    [tag |-> "tuple", JS |-> Float(Rat(0, 1)), C |-> Rat(0, 1),
     C_actual |-> Rat(0, 1), conf |-> conf]
NoConfidentResult(conf) ==
    [tag |-> "tuple", JS |-> Float(Rat(2, 1)), C |-> Rat(0, 1),
     C_actual |-> Rat(0, 1), conf |-> conf]

\* the tail of both discrete evaluators: (JS, C, C_actual, conf)
DiscreteResult(digits, is_confident, probs, num_labels) ==
    LET conf == MeanProb(probs)
        sel  == Masked(digits, is_confident)
    IN  IF CountTrue(is_confident) = 0
        THEN NoConfidentResult(conf)
        ELSE LET hist == ConfidentHist(digits, is_confident, num_labels)
                 threshold == Percentile5(hist)
             IN  [tag |-> "tuple",
                  JS |-> JsDivUniform(digits, num_labels),
                  C |-> OneMinus(RatioNotCovered(hist, threshold)),
                  C_actual |-> Rat(Cardinality(Unique(sel)), num_labels),
                  conf |-> conf]

Raised(what) == [tag |-> "error", what |-> what]

\* "with tf.Session().as_default() as sess": leaving the block ends the
\* session's turn as the default session and does not close it; the code
\* never calls sess.close().  Once the frame holding sess is dropped the
\* interpreter may finalize the session object ("closed") or leave it
\* ("exited"); a frame kept alive by the traceback of a raised assertion
\* is dropped only after the caller has dealt with the exception.
SessAfterFrame == {"exited", "closed"}

-----------------------------------------------------------------------------
(* evaluate and the two discrete evaluators *)

Init ==
    /\ self = [l2s |-> None, Qz |-> None]
    /\ caller = None
    /\ pc = "idle"
    /\ args = None
    /\ real_points = None
    /\ fake_points = <<>>
    /\ validation_fake_points = None
    /\ num_fake = 0
    /\ idx = 0
    /\ result = <<>>
    /\ result_probs = <<>>
    /\ result_is_confident = <<>>
    /\ requests = <<>>
    /\ sess = "none"
    /\ modes = None
    /\ phat = None
    /\ plots = <<>>
    /\ ret = None
    /\ num_real = 0
    /\ bandwidth = None
    /\ b_grid = <<>>
    /\ max_score = None
    /\ grid_log = None
    /\ kde = None
    /\ model_log_density = <<>>
    /\ real_points_log_density = <<>>

\* Metrics.evaluate: the dispatch on opts['dataset'].  W is the set of
\* calls considered: W.opts the option records, W.fake the fake batches per
\* dataset kind, W.real and W.validation the other two arrays.
Evaluate(W) ==
    /\ pc = "idle"
    /\ \E opts \in W.opts :
       \E real \in W.real[opts.dataset], fake \in W.fake[opts.dataset],
          val \in W.validation[opts.dataset] :
        /\ args' = [opts |-> opts, real_points |-> real, fake_points |-> fake,
                    validation_fake_points |-> val]
        /\ caller' = [real_points |-> real, fake_points |-> fake,
                       validation_fake_points |-> val]
        /\ real_points' = real
        /\ fake_points' = fake
        /\ validation_fake_points' =
              IF opts.dataset \in {"gmm", "circle_gmm"} THEN val ELSE None
        /\ IF opts.dataset \in {"gmm", "circle_gmm"}
           THEN pc' = "_evaluate_vec" /\ ret' = None
           ELSE IF opts.dataset = "mnist"
           THEN pc' = "_evaluate_mnist" /\ ret' = None
           ELSE IF opts.dataset = "mnist3"
           THEN pc' = "_evaluate_mnist3" /\ ret' = None
           ELSE pc' = "returned" /\ ret' = None
    /\ num_fake' = 0
    /\ idx' = 0
    /\ result' = <<>>
    /\ result_probs' = <<>>
    /\ result_is_confident' = <<>>
    /\ requests' = <<>>
    /\ modes' = None
    /\ phat' = None
    /\ plots' = <<>>
    /\ UNCHANGED <<self, sess>>
    /\ UNCHANGED vecVars

\* The head of a discrete evaluator, up to the batch loop: the assertion on
\* the fake batch, the rescaling to [0, 1], the graph and the session, the
\* restored model and the assertions on its collections.
DiscreteEnter(W, here, loop) ==
    /\ pc = here
    /\ IF Len(fake_points) = 0
       THEN /\ pc' = "raised"
            /\ ret' = Raised("No fake digits to evaluate")
            /\ UNCHANGED <<real_points, fake_points, validation_fake_points,
                           num_fake, sess, caller>>
       ELSE /\ num_fake' = Len(fake_points)
            /\ IF args.opts.input_normalize_sym
               THEN /\ real_points' = ForwardOpt(real_points)
                    /\ fake_points' = ForwardAll(fake_points)
                    /\ validation_fake_points' =
                           ForwardOpt(validation_fake_points)
                    /\ caller' =
                          [caller EXCEPT
                             !.real_points = Rebound(@, real_points'),
                             !.fake_points = Rebound(@, fake_points')]
               ELSE UNCHANGED <<real_points, fake_points,
                                validation_fake_points, caller>>
            /\ \E loaded \in W.model_loaded :
                 IF loaded
                 THEN pc' = loop /\ sess' = "default" /\ ret' = None
                 ELSE /\ pc' = "raised"
                      /\ sess' = "exited"
                      /\ ret' = Raised("Failed to load pre-trained model")
    /\ idx' = 0
    /\ result' = <<>>
    /\ result_probs' = <<>>
    /\ result_is_confident' = <<>>
    /\ UNCHANGED <<self, args, requests, modes, phat, plots>>

Mnist_Enter(W) ==
    DiscreteEnter(W, "_evaluate_mnist", "mnist_loop") /\ UNCHANGED vecVars
Mnist3_Enter(W) ==
    DiscreteEnter(W, "_evaluate_mnist3", "mnist3_loop") /\ UNCHANGED vecVars

\* one iteration of the batch loop of _evaluate_mnist
Mnist_Batch ==
    /\ pc = "mnist_loop"
    /\ idx < BatchesNum(num_fake, args.opts.tf_run_batch_size)
    /\ LET batch_size == args.opts.tf_run_batch_size
           thresh     == args.opts.digit_classification_threshold
           end_idx    == Min(num_fake, (idx + 1) * batch_size)
           batch_fake == PySlice(fake_points, idx * batch_size, end_idx)
           out        == SessRun(SplitSub(batch_fake, 1))
       IN  /\ requests' = Append(requests,
                                 [lo |-> idx * batch_size, hi |-> end_idx,
                                  input |-> SplitSub(batch_fake, 1)])
           /\ result' = Append(result, out.res)
           /\ result_probs' = Append(result_probs, out.prob)
           /\ result_is_confident' =
                 Append(result_is_confident,
                        [i \in 1..Len(out.prob) |-> Exceeds(out.prob[i], thresh)])
    /\ idx' = idx + 1
    /\ UNCHANGED <<pc, args, real_points, fake_points, validation_fake_points,
                   num_fake, sess, modes, phat, plots, ret>>
    /\ UNCHANGED vecVars
    /\ UNCHANGED callerVars

\* one iteration of the batch loop of _evaluate_mnist3
Mnist3_Batch ==
    /\ pc = "mnist3_loop"
    /\ idx < BatchesNum(num_fake, args.opts.tf_run_batch_size)
    /\ LET batch_size == args.opts.tf_run_batch_size
           thresh     == args.opts.digit_classification_threshold
           end_idx    == Min(num_fake, (idx + 1) * batch_size)
           batch_fake == PySlice(fake_points, idx * batch_size, end_idx)
           out1       == SessRun(SplitSub(batch_fake, 1))
           out2       == SessRun(SplitSub(batch_fake, 2))
           out3       == SessRun(SplitSub(batch_fake, 3))
           n          == Len(batch_fake)
           Req(j)     == [lo |-> idx * batch_size, hi |-> end_idx,
                          input |-> SplitSub(batch_fake, j)]
       IN  /\ requests' = requests \o <<Req(1), Req(2), Req(3)>>
           /\ result' = Append(result,
                 [i \in 1..n |->
                    CompositeLabel(out1.res[i], out2.res[i], out3.res[i])])
           /\ result_probs' = Append(result_probs,
                 [i \in 1..n |-> <<out1.prob[i], out2.prob[i], out3.prob[i]>>])
           /\ result_is_confident' = Append(result_is_confident,
                 [i \in 1..n |->
                    AllExceed(out1.prob[i], out2.prob[i], out3.prob[i], thresh)])
    /\ idx' = idx + 1
    /\ UNCHANGED <<pc, args, real_points, fake_points, validation_fake_points,
                   num_fake, sess, modes, phat, plots, ret>>
    /\ UNCHANGED vecVars
    /\ UNCHANGED callerVars

\* The tail of a discrete evaluator, after the batch loop: the stacked
\* results and their assertions, the end of the session block, the
\* rescaling back, the mode loop, the plot request and the metrics.
DiscreteFinish(loop, num_labels, composite) ==
    /\ pc = loop
    /\ idx >= BatchesNum(num_fake, args.opts.tf_run_batch_size)
    /\ LET res     == Stack(result)
           probs   == Stack(result_probs)
           is_conf == Stack(result_is_confident)
           back    == IF args.opts.input_normalize_sym
                      THEN BackAll(fake_points)
                      ELSE fake_points
       IN  /\ IF Len(res) # num_fake \/ Len(probs) # num_fake
              THEN /\ pc' = "raised"
                   /\ sess' = "exited"
                   /\ ret' = Raised("AssertionError")
                   /\ UNCHANGED <<real_points, fake_points, caller,
                                  validation_fake_points, modes, phat, plots>>
              ELSE /\ fake_points' = back
                   /\ real_points' =
                         IF args.opts.input_normalize_sym
                         THEN BackOpt(real_points)
                         ELSE real_points
                   /\ validation_fake_points' =
                         IF args.opts.input_normalize_sym
                         THEN BackOpt(validation_fake_points)
                         ELSE validation_fake_points
                   /\ caller' =
                         IF args.opts.input_normalize_sym
                         THEN [caller EXCEPT
                                 !.real_points = Rebound(@, real_points'),
                                 !.fake_points = Rebound(@, fake_points')]
                         ELSE caller
                   /\ modes' = GatherModes(res, is_conf, back)
                   /\ plots' = IF Len(modes'.points_to_plot) > 0
                               THEN Append(plots,
                                      [prefix |-> "modes_",
                                       fake_points |-> modes'.points_to_plot])
                               ELSE plots
                   /\ phat' = IF CountTrue(is_conf) = 0 THEN None
                              ELSE ConfidentHist(res, is_conf, num_labels)
                   /\ ret' = DiscreteResult(res, is_conf,
                                IF composite THEN Stack(probs) ELSE probs,
                                num_labels)
                   /\ pc' = "returned"
                   /\ sess' \in SessAfterFrame
    /\ UNCHANGED <<self, args, num_fake, idx, result, result_probs,
                   result_is_confident, requests>>

Mnist_Finish == DiscreteFinish("mnist_loop", 10, FALSE) /\ UNCHANGED vecVars
Mnist3_Finish == DiscreteFinish("mnist3_loop", 1000, TRUE) /\ UNCHANGED vecVars

-----------------------------------------------------------------------------
(* _evaluate_vec.  A point of a toy dataset is modelled by one coordinate. *)

GridSize == 14
GridShift == 7
MaxScoreInit == -1000000

\* np.sqrt(np.sum(dist * dist, axis=(1, 2, 3))) for
\* dist = fake_points[:-1] - fake_points[1:], one coordinate per point
ConsecutiveDist_Signed(points) ==
    IF Len(points) < 2 THEN <<>>
    ELSE [i \in 1..(Len(points) - 1) |-> points[i] - points[i + 1]]
ConsecutiveDist(points) ==
    IF Len(points) < 2 THEN <<>>
    ELSE [i \in 1..(Len(points) - 1) |-> Abs(points[i] - points[i + 1])]

\* entry k (0-based) of np.sort(a), a an array of integers
SortedAt(a, k) ==
    CHOOSE v \in Range(a) :
        /\ Cardinality({i \in 1..Len(a) : a[i] <= v}) > k
        /\ Cardinality({i \in 1..Len(a) : a[i] < v}) <= k

\* np.median(a): NaN for the empty array, the mean of the two middle entries
\* for an even length
Median(a) ==
    LET n == Len(a)
    IN  IF n = 0 THEN NaN
        ELSE IF n % 2 = 1 THEN Rat(SortedAt(a, n \div 2), 1)
        ELSE Rat(SortedAt(a, n \div 2 - 1) + SortedAt(a, n \div 2), 2)

\* bandwidth * (2. ** (np.arange(14) - 7.)), entry k (0-based)
GridCandidate(b, k) ==
    IF IsNaN(b) THEN NaN
    ELSE IF k >= GridShift THEN Rat(b.num * Pow2(k - GridShift), b.den)
    ELSE Rat(b.num, b.den * Pow2(GridShift - k))
BGrid(b) == [k \in 1..GridSize |-> GridCandidate(b, k - 1)]

\* KernelDensity(kernel='gaussian', bandwidth=b).fit: the backend refuses a
\* bandwidth b <= 0; a NaN passes that comparison, and is refused only by a
\* backend release that validates its parameters (strict)
BackendRefuses(b, strict) == Leq(b, Rat(0, 1)) \/ (strict /\ IsNaN(b))

\* score > max_score
ScoreImproves(score, best) == Lt(best, score)

\* np.percentile(a, 5) of an array of integral log-densities
PercentileOfSeq(a, w) ==
    Interpolate(Fl(SortedAt(a, w.indices_below), 0),
                Fl(SortedAt(a, w.indices_above), 0), w)
Percentile5Seq(a) == PercentileOfSeq(a, PercentileWeights(Len(a)))

\* np.percentile(model_log_density, 5); the log-densities are all NaN when
\* the model was fitted with a NaN bandwidth
Threshold(log_density) ==
    IF \E i \in 1..Len(log_density) : IsNaN(log_density[i]) THEN NaN
    ELSE Percentile5Seq([i \in 1..Len(log_density) |-> log_density[i].num])

\* np.mean(real_points_log_density <= threshold), the log-densities integral
RatioNotCoveredVec(log_density, threshold) ==
    Rat(Cardinality({i \in 1..Len(log_density) :
                        /\ ~IsNaN(log_density[i]) /\ threshold # NaN
                        /\ FLeq(Fl(log_density[i].num, 0), threshold)}),
        Len(log_density))

\* np.mean(real_points_log_density)
MeanLogDensity(log_density) ==
    IF \E i \in 1..Len(log_density) : IsNaN(log_density[i]) THEN NaN
    ELSE Rat(SumSeq([i \in 1..Len(log_density) |-> log_density[i].num]),
             Len(log_density))

\* kde.score_samples(x) for n points: one log-density per point, drawn
\* from the values S; NaN throughout under a NaN bandwidth
ScoreSamples(b, n, S) ==
    IF IsNaN(b) THEN {[i \in 1..n |-> NaN]}
    ELSE [1..n -> {Rat(v, 1) : v \in S}]

\* np.mean(kde.score_samples(validation_fake_points)): one value of S
MeanScore(b, S) == IF IsNaN(b) THEN {NaN} ELSE {Rat(v, 1) : v \in S}

\* the median bandwidth, the sizes and, with a validation batch, the grid
Vec_Enter ==
    /\ pc = "_evaluate_vec"
    /\ bandwidth' = Median(ConsecutiveDist(fake_points))
    /\ num_real' = Len(real_points.a)
    /\ num_fake' = Len(fake_points)
    /\ IF ~IsNone(validation_fake_points)
       THEN /\ max_score' = Rat(MaxScoreInit, 1)
            /\ b_grid' = BGrid(bandwidth')
            /\ grid_log' = [best |-> None, selected |-> None]
            /\ pc' = "vec_grid"
       ELSE /\ UNCHANGED <<max_score, b_grid, grid_log>>
            /\ pc' = "vec_fit"
    /\ idx' = 0
    /\ UNCHANGED <<args, real_points, fake_points, validation_fake_points,
                   sess, ret, kde, model_log_density,
                   real_points_log_density>>
    /\ UNCHANGED discVars
    /\ UNCHANGED callerVars

\* one candidate of the grid search: fit on the fake batch, score the
\* validation batch, keep the candidate when its score is higher
Vec_GridStep(W) ==
    /\ pc = "vec_grid"
    /\ idx < GridSize
    /\ LET _bandwidth == b_grid[idx + 1]
       IN  \E strict \in W.backend_strict :
           IF \/ BackendRefuses(_bandwidth, strict)
              \/ num_fake = 0
              \/ Len(validation_fake_points.a) = 0
           THEN /\ pc' = "raised"
                /\ ret' = Raised("ValueError")
                /\ UNCHANGED <<idx, bandwidth, max_score, grid_log>>
           ELSE \E score \in MeanScore(_bandwidth, W.grid_scores) :
                /\ grid_log' =
                     [best |-> IF IsNone(grid_log.best) \/ Lt(grid_log.best, score)
                               THEN score ELSE grid_log.best,
                      selected |->
                          IF ScoreImproves(score, max_score) THEN score
                          ELSE IF _bandwidth = bandwidth
                                  /\ IsNone(grid_log.selected)
                               THEN score
                          ELSE grid_log.selected]
                /\ IF ScoreImproves(score, max_score)
                   THEN bandwidth' = _bandwidth /\ max_score' = score
                   ELSE UNCHANGED <<bandwidth, max_score>>
                /\ idx' = idx + 1
                /\ pc' = IF idx + 1 = GridSize THEN "vec_fit" ELSE "vec_grid"
                /\ UNCHANGED ret
    /\ UNCHANGED <<args, real_points, fake_points, validation_fake_points,
                   num_fake, sess, num_real, b_grid, kde, model_log_density,
                   real_points_log_density>>
    /\ UNCHANGED discVars
    /\ UNCHANGED callerVars

\* the final fit and the log-densities of the fake points
Vec_Fit(W) ==
    /\ pc = "vec_fit"
    /\ kde' = [bandwidth |-> bandwidth]
    /\ \E strict \in W.backend_strict :
       IF BackendRefuses(bandwidth, strict) \/ num_fake = 0
       THEN /\ pc' = "raised"
            /\ ret' = Raised("ValueError")
            /\ UNCHANGED model_log_density
       ELSE /\ model_log_density' \in
                   ScoreSamples(bandwidth, num_fake, W.fit_scores)
            /\ pc' = "vec_cover"
            /\ UNCHANGED ret
    /\ UNCHANGED <<args, real_points, fake_points, validation_fake_points,
                   num_fake, idx, sess, num_real, bandwidth, b_grid,
                   max_score, grid_log, real_points_log_density>>
    /\ UNCHANGED discVars
    /\ UNCHANGED callerVars

\* the threshold, the log-densities of the real points, log_p and C
Vec_Coverage(W) ==
    /\ pc = "vec_cover"
    /\ IF num_real = 0
       THEN /\ pc' = "raised"
            /\ ret' = Raised("ValueError")
            /\ UNCHANGED real_points_log_density
       ELSE LET threshold == Threshold(model_log_density)
            IN  /\ real_points_log_density' \in
                       ScoreSamples(kde.bandwidth, num_real, W.fit_scores)
                /\ LET ratio_not_covered ==
                           RatioNotCoveredVec(real_points_log_density',
                                              threshold)
                   IN  ret' = [tag |-> "tuple",
                               log_p |-> MeanLogDensity(real_points_log_density'),
                               C |-> OneMinus(ratio_not_covered)]
                /\ pc' = "returned"
    /\ UNCHANGED <<args, real_points, fake_points, validation_fake_points,
                   num_fake, idx, sess, num_real, bandwidth, b_grid,
                   max_score, grid_log, kde, model_log_density>>
    /\ UNCHANGED discVars
    /\ UNCHANGED callerVars

-----------------------------------------------------------------------------
(* _make_plots_pics: the mosaic of pictures.  A picture is modelled by its  *)
(* identity; a tile of the mosaic is a picture as it is drawn, or a blank.  *)

MaxRowsDefault == 16

\* pics.append(1. - fake_points[idx, ...]) for the digit datasets,
\* pics.append(fake_points[idx, :, :, :]) otherwise; the pictures are first
\* rescaled to [0, 1] under input_normalize_sym
Tile(opts, picture) ==
    [tag |-> "picture", of |-> picture,
     rescaled |-> opts.input_normalize_sym
                     /\ opts.dataset \in {"mnist", "mnist3", "guitars", "cifar10"},
     negative |-> opts.dataset \in {"mnist", "mnist3"}]
\* np.ones(pics[0].shape)
Ones == [tag |-> "ones"]

\* int(np.ceil(1. * num_pics / max_rows))
NumCols(num_pics, max_rows) ==
    IF num_pics % max_rows = 0 THEN num_pics \div max_rows
    ELSE num_pics \div max_rows + 1

\* "Figuring out a layout": the mosaic as the list of its columns, each
\* column the list of its tiles from top to bottom
Mosaic_AlwaysPadded(pics, max_rows) ==
    LET num_cols     == NumCols(Len(pics), max_rows)
        last_col_num == Len(pics) % max_rows
        padded == IF last_col_num > 0
                  THEN pics \o [i \in 1..(max_rows - last_col_num) |-> Ones]
                  ELSE pics
    IN  [c \in 1..num_cols |->
            PySlice(padded, (c - 1) * max_rows, c * max_rows)]
Mosaic(pics, max_rows) ==
    LET num_cols     == NumCols(Len(pics), max_rows)
        last_col_num == Len(pics) % max_rows
    IN  IF num_cols = 1 THEN <<pics>>
        ELSE LET padded ==
                   IF last_col_num > 0
                   THEN pics \o [i \in 1..(max_rows - last_col_num) |-> Ones]
                   ELSE pics
             IN  [c \in 1..num_cols |->
                     PySlice(padded, (c - 1) * max_rows, c * max_rows)]

\* the subplots next to the mosaic: none without a loss curve (self.l2s)
Subplots(fields) ==
    IF IsNone(fields.l2s) THEN <<"image">>
    ELSE IF IsNone(fields.Qz) THEN <<"image", "l2s">>
    ELSE <<"image", "l2s", "Qz">>

\* a call of _make_plots_pics by the plot dispatcher: the pictures, the
\* layout, the figure saved under prefix + 'mixture{:06d}.png'
MakePlotsPics(W) ==
    /\ pc = "idle"
    /\ \E call \in W.pic_calls :
         IF Len(call.fake_points) = 0
         THEN /\ pc' = "raised"
              /\ ret' = Raised("No points to plot")
              /\ UNCHANGED plots
         ELSE LET pics == [i \in 1..Len(call.fake_points) |->
                              Tile(call.opts, call.fake_points[i])]
              IN  /\ plots' = Append(plots,
                         [prefix |-> "", fake_points |-> call.fake_points,
                          max_rows |-> call.max_rows,
                          num_cols |-> NumCols(Len(pics), call.max_rows),
                          image |-> Mosaic(pics, call.max_rows),
                          subplots |-> Subplots(self)])
                  /\ pc' = "returned"
                  /\ ret' = [tag |-> "True"]
    /\ UNCHANGED <<args, real_points, fake_points, validation_fake_points,
                   num_fake, idx, result, result_probs, result_is_confident,
                   requests, sess, modes, phat>>
    /\ UNCHANGED vecVars
    /\ UNCHANGED callerVars

\* the caller takes the result (or the exception) and may call again
\* (the frame of the call is dropped)
Return ==
    /\ pc \in {"returned", "raised"}
    /\ pc' = "idle"
    /\ caller' = None
    /\ UNCHANGED self
    /\ args' = None
    /\ real_points' = None
    /\ fake_points' = <<>>
    /\ validation_fake_points' = None
    /\ num_fake' = 0
    /\ idx' = 0
    /\ result' = <<>>
    /\ result_probs' = <<>>
    /\ result_is_confident' = <<>>
    /\ requests' = <<>>
    /\ modes' = None
    /\ phat' = None
    /\ plots' = <<>>
    /\ ret' = None
    /\ num_real' = 0
    /\ bandwidth' = None
    /\ b_grid' = <<>>
    /\ max_score' = None
    /\ grid_log' = None
    /\ kde' = None
    /\ model_log_density' = <<>>
    /\ real_points_log_density' = <<>>
    /\ IF pc = "raised" /\ sess = "exited"
       THEN sess' \in SessAfterFrame
       ELSE UNCHANGED sess

-----------------------------------------------------------------------------
(* The calls considered, and the specifications *)

Next(W) ==
    \/ Evaluate(W)
    \/ Mnist_Enter(W)
    \/ Mnist_Batch
    \/ Mnist_Finish
    \/ Mnist3_Enter(W)
    \/ Mnist3_Batch
    \/ Mnist3_Finish
    \/ Vec_Enter
    \/ Vec_GridStep(W)
    \/ Vec_Fit(W)
    \/ Vec_Coverage(W)
    \/ MakePlotsPics(W)
    \/ Return

Thresh == 999          \* digit_classification_threshold 0.999, in thousandths

MaxFake == 3           \* fake points of a single-digit batch
MaxFake3 == 2          \* fake points of a three-digit batch
MaxBatch == 2          \* tf_run_batch_size
MaxFakeOne == 1        \* three-digit batches over the wide digit range
MaxFakeVec == 3        \* fake points of a toy batch
MaxCoord == 2          \* coordinates of toy points
MaxReal == 2           \* real points of a toy batch
MaxFakeCov == 5        \* fake points scored for the Coverage
MaxBatchWide == 3      \* batch sizes / batch lengths of the batching runs
MaxFakeWide == 5

Datasets == {"gmm", "circle_gmm", "mnist", "mnist3", "cifar10"}
Px == Fl(1, -1)

MaxFakeEven == 11      \* fake points cycling through the ten digits
MaxPics == 7           \* pictures of a mosaic
MaxRows == 3           \* max_rows of a mosaic
MaxPxExp == 4          \* pixel intensities are multiples of 2^-MaxPxExp
MaxTiny == 2           \* ... or a power of 2 from 2^-MantBits down

ImageOpts(ds, syms, batches) ==
    [dataset : ds, input_normalize_sym : syms, tf_run_batch_size : batches,
     digit_classification_threshold : {Thresh}]
VecOpts(ds) == ImageOpts(ds, {FALSE}, {100})

MnistPoints(digits, probs) ==
    {Point(<<Image(d, p)>>, Px) : d \in digits, p \in probs}
Mnist3Points(triples, probs) ==
    {Point(<<Image(t[1], q[1]), Image(t[2], q[2]), Image(t[3], q[3])>>, Px) :
        t \in triples, q \in probs \X probs \X probs}

\* the smallest set of calls that still takes every path of the toy
\* evaluator, and the same for the image evaluators
VecFakeFew == {<<>>, <<0>>, <<0, 1>>}
ImageFakeFew(ds) ==
    IF ds = "mnist"
    THEN SeqsUpTo(MnistPoints({1}, {Thresh + 1}), 1)
    ELSE SeqsUpTo(Mnist3Points({<<1, 2, 3>>}, {Thresh + 1}), 1)

World(opts, mnist, mnist3, gmm, gmm_real, gmm_val, grid_scores, fit_scores) ==
    [opts |-> opts,
     fake |-> [ds \in Datasets |->
                 IF ds = "mnist" THEN mnist
                 ELSE IF ds = "mnist3" THEN mnist3
                 ELSE IF ds = "gmm" THEN gmm
                 ELSE IF ds = "circle_gmm" THEN {<<0, 1>>}
                 ELSE {<<>>}],
     real |-> [ds \in Datasets |->
                 IF ds = "gmm" THEN gmm_real
                 ELSE IF ds = "circle_gmm" THEN {Arr(<<0>>)}
                 ELSE {None}],
     validation |-> [ds \in Datasets |->
                 IF ds = "gmm" THEN gmm_val ELSE {None}],
     pic_calls |-> [opts : ImageOpts({"mnist"}, {FALSE}, {1}),
                    fake_points : {<<>>, <<1>>},
                    max_rows : {MaxRowsDefault}],
     model_loaded |-> BOOLEAN,
     backend_strict |-> BOOLEAN,
     grid_scores |-> grid_scores,
     fit_scores |-> fit_scores]

\* the image evaluators over short batches of near-threshold images
WImages ==
    World(ImageOpts({"mnist", "mnist3"}, BOOLEAN, {1, MaxBatch})
              \cup VecOpts({"gmm", "circle_gmm", "cifar10"}),
          SeqsUpTo(MnistPoints({0, 1, 9}, {Thresh - 1, Thresh, Thresh + 1}),
                   MaxFake),
          SeqsUpTo(Mnist3Points({<<1, 2, 3>>, <<0, 0, 9>>},
                                {Thresh, Thresh + 1}), MaxFake3),
          VecFakeFew, {Arr(<<0>>)}, {None, Arr(<<0>>)}, {-3}, {-3})

\* the three-digit evaluator over a wide range of digits
WComposite ==
    World(ImageOpts({"mnist", "mnist3"}, {FALSE}, {1})
              \cup VecOpts({"gmm", "circle_gmm", "cifar10"}),
          ImageFakeFew("mnist"),
          SeqsUpTo(Mnist3Points({0, 1, 2, 3, 9} \X {0, 1, 2, 3, 9} \X {0, 1, 2, 3, 9},
                                {Thresh + 1}), MaxFakeOne),
          VecFakeFew, {Arr(<<0>>)}, {None, Arr(<<0>>)}, {-3}, {-3})

\* the batch loop over longer batches of one image
WBatches ==
    World(ImageOpts({"mnist", "mnist3"}, {FALSE}, 1..MaxBatchWide)
              \cup VecOpts({"gmm", "circle_gmm", "cifar10"}),
          SeqsUpTo(MnistPoints({1, 2}, {Thresh + 1}), MaxFakeWide),
          SeqsUpTo(Mnist3Points({<<1, 2, 3>>, <<3, 2, 1>>}, {Thresh + 1}),
                   MaxFakeWide),
          VecFakeFew, {Arr(<<0>>)}, {None, Arr(<<0>>)}, {-3}, {-3})

\* the bandwidth of the toy evaluator, with and without a validation batch
WBandwidth ==
    World(ImageOpts({"mnist", "mnist3"}, {FALSE}, {1})
              \cup VecOpts({"gmm", "circle_gmm", "cifar10"}),
          ImageFakeFew("mnist"), ImageFakeFew("mnist3"),
          SeqsUpTo(0..MaxCoord, MaxFakeVec), {Arr(<<>>), Arr(<<0>>)},
          {None, Arr(<<>>), Arr(<<0>>)}, {-2000000, -1000000, -3, -2}, {-3})

\* the Coverage of the toy evaluator over the log-densities of the backend
WCoverage ==
    World(ImageOpts({"mnist", "mnist3"}, {FALSE}, {1})
              \cup VecOpts({"gmm", "circle_gmm", "cifar10"}),
          ImageFakeFew("mnist"), ImageFakeFew("mnist3"),
          {[i \in 1..n |-> i] : n \in 0..MaxFakeCov},
          {Arr([i \in 1..n |-> 0]) : n \in 0..MaxReal},
          {None, Arr(<<0>>)}, {-3}, {-4, -3, -2})

\* pixel intensities of [-1, 1]: the multiples of 2^-MaxPxExp, the floats
\* of the tenths, and powers of 2 so small that x / 2. is below the last
\* place of 0.5
PxValues ==
    {Fl(m, -MaxPxExp) : m \in (-Pow2(MaxPxExp))..Pow2(MaxPxExp)}
        \cup {FDivInt(k, 10) : k \in -10..10}
        \cup {Fl(sign, -(MantBits + j)) : sign \in {-1, 1}, j \in 0..MaxTiny}

\* the rescalings over single images of these intensities
WRescale ==
    World(ImageOpts({"mnist", "mnist3"}, BOOLEAN, {1})
              \cup VecOpts({"gmm", "circle_gmm", "cifar10"}),
          SeqsUpTo({Point(<<Image(1, Thresh + 1)>>, x) : x \in PxValues}, 1),
          SeqsUpTo({Point(<<Image(1, Thresh + 1), Image(2, Thresh + 1),
                            Image(3, Thresh + 1)>>, x) :
                        x \in {Fl(-1, 0), Fl(1, 0)}}, 1),
          VecFakeFew, {Arr(<<0>>)}, {None, Arr(<<0>>)}, {-3}, {-3})

\* the mosaic over every number of pictures and of rows up to the bounds
WPlots ==
    [WComposite EXCEPT
       !.pic_calls =
           [opts : ImageOpts({"mnist", "mnist3", "cifar10"}, BOOLEAN, {1}),
            fake_points : {[i \in 1..n |-> i] : n \in 0..MaxPics},
            max_rows : 1..MaxRows]]

\* batches that cycle through the ten digits, all confident but at most one
CyclingDigits ==
    {[i \in 1..n |->
         Point(<<Image((i - 1) % 10, IF i = k THEN Thresh ELSE Thresh + 1)>>, Px)] :
        n \in 0..MaxFakeEven, k \in 0..MaxFakeEven}
WEven ==
    World(ImageOpts({"mnist"}, {FALSE}, {100})
              \cup ImageOpts({"mnist3"}, {FALSE}, {1})
              \cup VecOpts({"gmm", "circle_gmm", "cifar10"}),
          CyclingDigits, ImageFakeFew("mnist3"),
          VecFakeFew, {Arr(<<0>>)}, {None, Arr(<<0>>)}, {-3}, {-3})

Spec == Init /\ [][Next(WImages)]_vars
SpecEven == Init /\ [][Next(WEven)]_vars
SpecPlots == Init /\ [][Next(WPlots)]_vars
SpecRescale == Init /\ [][Next(WRescale)]_vars
SpecComposite == Init /\ [][Next(WComposite)]_vars
SpecBatches == Init /\ [][Next(WBatches)]_vars
SpecBandwidth == Init /\ [][Next(WBandwidth)]_vars
SpecCoverage == Init /\ [][Next(WCoverage)]_vars

-----------------------------------------------------------------------------
(* Reference notions the properties are stated with.  They are read off    *)
(* the caller's arguments, not off the locals of the evaluators.           *)

IsImageCall == ~IsNone(args) /\ args.opts.dataset \in {"mnist", "mnist3"}
IsMnistCall == ~IsNone(args) /\ args.opts.dataset = "mnist"
IsMnist3Call == ~IsNone(args) /\ args.opts.dataset = "mnist3"
IsVecCall == ~IsNone(args) /\ args.opts.dataset \in {"gmm", "circle_gmm"}

RefThresh == args.opts.digit_classification_threshold
RefLabelSpace == IF args.opts.dataset = "mnist" THEN 10 ELSE 1000
RefSubProbs(pt) == [j \in 1..Len(pt.subs) |-> pt.subs[j].prob]
RefLabel(pt) ==
    IF Len(pt.subs) = 1 THEN pt.subs[1].digit
    ELSE 100 * pt.subs[1].digit + 10 * pt.subs[2].digit + pt.subs[3].digit
RefConfident(pt) == \A j \in 1..Len(pt.subs) : pt.subs[j].prob > RefThresh
RefConfidentIdx ==
    {i \in 1..Len(args.fake_points) : RefConfident(args.fake_points[i])}
RefConfidentLabels == {RefLabel(args.fake_points[i]) : i \in RefConfidentIdx}
RefFlags == Stack(result_is_confident)
RefAllProbs ==
    Stack([i \in 1..Len(args.fake_points) |-> RefSubProbs(args.fake_points[i])])
\* every fake point is classified and none is flagged confident
RefNoneFlagged ==
    /\ num_fake > 0
    /\ Len(RefFlags) = num_fake
    /\ \A i \in 1..Len(RefFlags) : ~RefFlags[i]

\* C1: in both discrete evaluators a call on a non-empty fake batch of which
\* no point is flagged confident returns exactly (2.0, 0.0, 0.0, the mean of
\* all class probabilities) and raises no error.
C1_NoConfidentSentinel ==
    (pc \in {"returned", "raised"} /\ IsImageCall /\ RefNoneFlagged) =>
        /\ pc = "returned"
        /\ ret.tag = "tuple"
        /\ ret.JS = Float(Rat(2, 1))
        /\ ret.C = Rat(0, 1)
        /\ ret.C_actual = Rat(0, 1)
        /\ ret.conf.den > 0
        /\ ret.conf.num * 1000 * Len(RefAllProbs)
               = SumSeq(RefAllProbs) * ret.conf.den

\* a three-digit batch of two points, some sub-image above the threshold,
\* no point confident, returned with the sentinel
C1_Witness ==
    /\ pc = "returned" /\ IsMnist3Call /\ RefNoneFlagged
    /\ Len(args.fake_points) = 2
    /\ \E i \in 1..2 : \E j \in 1..3 :
          args.fake_points[i].subs[j].prob > RefThresh
    /\ ret.JS = Float(Rat(2, 1))

\* C2: the returned actual_coverage lies in [0, 1] and is the number of
\* distinct labels among the confident points divided by the size of the
\* label space (10, or 1000 for three digits); labels that occur only on
\* points that are not confident are not counted.
C2_ActualCoverage ==
    (pc = "returned" /\ IsImageCall) =>
        /\ ret.tag = "tuple"
        /\ ret.C_actual.den > 0
        /\ 0 <= ret.C_actual.num /\ ret.C_actual.num <= ret.C_actual.den
        /\ ret.C_actual.num * RefLabelSpace
               = Cardinality(RefConfidentLabels) * ret.C_actual.den

\* two distinct confident labels and a third label on a point that is not
\* confident
C2_Witness ==
    /\ pc = "returned" /\ IsMnistCall
    /\ Cardinality(RefConfidentLabels) = 2
    /\ \E i \in 1..Len(args.fake_points) :
          RefLabel(args.fake_points[i]) \notin RefConfidentLabels
    /\ ret.C_actual = Rat(2, 10)

\* the labels of the confident points, in input order
RefConfidentLabelSeq ==
    LET RECURSIVE Go(_)
        Go(i) == IF i > Len(args.fake_points) THEN <<>>
                 ELSE IF i \in RefConfidentIdx
                      THEN <<RefLabel(args.fake_points[i])>> \o Go(i + 1)
                 ELSE Go(i + 1)
    IN  Go(1)

\* C3: when at least one point is confident, js_divergence is the
\* Jensen-Shannon divergence from uniform of the histogram of the labels of
\* the confident points only; the labels of the other points do not enter.
C3_JsFromConfidentOnly ==
    (pc = "returned" /\ IsImageCall /\ RefConfidentIdx # {}) =>
        ret.JS = JsDivUniform(RefConfidentLabelSeq, RefLabelSpace)

\* C4: in the three-digit evaluator the label of a point whose sub-images
\* are classified (a, b, c) is the decimal number abc: it lies in 0..999, its
\* digits give back a, b and c, and (1, 2, 3) gives 123.
C4_CompositeLabel ==
    IsMnist3Call =>
        LET labels == Stack(result)
        IN  \A i \in 1..Len(labels) :
              LET a == args.fake_points[i].subs[1].digit
                  b == args.fake_points[i].subs[2].digit
                  c == args.fake_points[i].subs[3].digit
              IN  /\ labels[i] \in 0..999
                  /\ labels[i] \div 100 = a
                  /\ (labels[i] \div 10) % 10 = b
                  /\ labels[i] % 10 = c
                  /\ (<<a, b, c>> = <<1, 2, 3>> => labels[i] = 123)

\* the point (1, 2, 3) labelled 123, and the call returned
C4_Witness ==
    /\ pc = "returned" /\ IsMnist3Call
    /\ Stack(result) = <<123>>
    /\ args.fake_points[1].subs[1].digit = 1

\* C5: in the three-digit evaluator a point is flagged confident exactly
\* when all three sub-probabilities are strictly above the threshold, and
\* only such points enter actual_coverage, phat and the mode gallery.
C5_AllThreeConfident ==
    IsMnist3Call =>
        /\ \A i \in 1..Len(RefFlags) :
              RefFlags[i] <=>
                 \A j \in 1..3 : args.fake_points[i].subs[j].prob > RefThresh
        /\ pc = "returned" =>
              /\ \A k \in 1..Len(modes.points_to_plot) :
                    RefConfident(modes.points_to_plot[k])
              /\ ret.C_actual.num * 1000
                    = Cardinality(RefConfidentLabels) * ret.C_actual.den
              /\ IF RefConfidentIdx = {} THEN IsNone(phat)
                 ELSE /\ DOMAIN phat.hits = RefConfidentLabels
                      /\ \A l \in RefConfidentLabels :
                            phat.hits[l] = Cardinality(
                               {i \in RefConfidentIdx :
                                   RefLabel(args.fake_points[i]) = l})

\* one point with exactly one sub-probability at the threshold, one point
\* with all three above it
C5_Witness ==
    /\ pc = "returned" /\ IsMnist3Call
    /\ Len(args.fake_points) = 2
    /\ Cardinality(RefConfidentIdx) = 1
    /\ \E i \in 1..2 :
          Cardinality({j \in 1..3 :
              args.fake_points[i].subs[j].prob = RefThresh}) = 1
    /\ ret.C_actual = Rat(1, 1000)

\* the least q with q * b >= n
RefCeil(n, b) == CHOOSE q \in 0..n : q * b >= n /\ \A r \in 0..(q - 1) : r * b < n
RefRunsPerBatch == IF args.opts.dataset = "mnist3" THEN 3 ELSE 1

\* C6: for N >= 1 fake points and batch size B >= 1 the classifier loop makes
\* exactly ceil(N / B) batch requests, batch k covers exactly the points
\* k*B .. min(N, (k+1)*B) - 1, and the stacked labels, probabilities and flags
\* have length N with entry i belonging to fake point i.
C6_Batching ==
    IsImageCall =>
        LET n == Len(args.fake_points)
            b == args.opts.tf_run_batch_size
            r == RefRunsPerBatch
        IN  /\ \A m \in 1..Len(requests) :
                  LET k  == (m - 1) \div r
                      j  == ((m - 1) % r) + 1
                      rq == requests[m]
                  IN  /\ rq.lo = k * b
                      /\ rq.hi = Min(n, (k + 1) * b)
                      /\ rq.hi - rq.lo \in 1..b
                      /\ rq.input = [i \in 1..(rq.hi - rq.lo) |->
                                        args.fake_points[rq.lo + i].subs[j]]
            /\ Len(requests) <= r * RefCeil(n, b)
            /\ pc = "raised" => ret.what # "AssertionError"
            /\ pc = "returned" =>
                  /\ Len(requests) = r * RefCeil(n, b)
                  /\ Len(Stack(result)) = n
                  /\ Len(Stack(result_probs)) = n
                  /\ Len(RefFlags) = n
                  /\ \A i \in 1..n :
                        /\ Stack(result)[i] = RefLabel(args.fake_points[i])
                        /\ RefFlags[i] = RefConfident(args.fake_points[i])
                        /\ Stack(result_probs)[i] =
                              IF r = 1 THEN args.fake_points[i].subs[1].prob
                              ELSE RefSubProbs(args.fake_points[i])

\* five points in batches of two: three requests, the last one of one point
C6_Witness ==
    /\ pc = "returned" /\ IsMnistCall
    /\ Len(args.fake_points) = 5
    /\ args.opts.tf_run_batch_size = 2
    /\ Len(requests) = 3
    /\ requests[3].lo = 4 /\ requests[3].hi = 5

\* the two smallest log-densities of the fake points (with multiplicity)
RefLowest(a) == CHOOSE v \in Range(a) : \A w \in Range(a) : v <= w
RefSecondLowest(a) ==
    LET lowest == RefLowest(a)
    IN  IF Cardinality({i \in 1..Len(a) : a[i] = lowest}) >= 2 THEN lowest
        ELSE IF \A i \in 1..Len(a) : a[i] = lowest THEN lowest
        ELSE CHOOSE v \in Range(a) :
                v > lowest /\ \A w \in Range(a) : w > lowest => v <= w
\* the real points whose log-density is at most the 5th percentile of the
\* fake log-densities, taken exactly; for n <= 21 fake points the percentile
\* lies 0.05 * (n - 1) of the way from the lowest to the second lowest
\* value, and no value is at most an undefined (NaN) percentile
RefNotCovered ==
    IF \E i \in 1..Len(model_log_density) : model_log_density[i].den = 0
    THEN {}
    ELSE LET fake == [i \in 1..Len(model_log_density) |->
                          model_log_density[i].num]
             n    == Len(fake)
             s0   == RefLowest(fake)
             s1   == RefSecondLowest(fake)
         IN  {i \in 1..Len(real_points_log_density) :
                 100 * real_points_log_density[i].num
                    <= 100 * s0 + 5 * (n - 1) * (s1 - s0)}

RefZeroPairs ==
    {i \in 1..(Len(args.fake_points) - 1) :
        args.fake_points[i] = args.fake_points[i + 1]}
\* the median consecutive distance is non-zero: at most half of the
\* consecutive pairs coincide (with more than half of them at distance 0
\* the middle entry, or both middle entries, of the sorted distances are 0)
RefMedianNonZero ==
    2 * Cardinality(RefZeroPairs) <= Len(args.fake_points) - 1

\* C8 (as stated): for every fake batch of at least two points the bandwidth
\* passed to the final density fit is strictly positive.
C8_BandwidthPositive ==
    (IsVecCall /\ Len(args.fake_points) >= 2 /\ ~IsNone(kde)) =>
        kde.bandwidth.den > 0 /\ kde.bandwidth.num > 0

\* C8 (amended): for every fake batch of at least two points, with or
\* without a validation batch: when the median consecutive distance is
\* non-zero the bandwidth passed to the final density fit is strictly
\* positive and the final fit is not refused; when the median is 0 (more
\* than half of the consecutive pairs coincide) the bandwidth and every
\* grid candidate are 0, a final fit that is reached is given the bandwidth
\* 0 and is refused, and the call ends in the backend's error without ever
\* returning a tuple.
C8_BandwidthPositiveNonDegenerate ==
    (IsVecCall /\ Len(args.fake_points) >= 2) =>
        IF RefMedianNonZero
        THEN /\ pc \in {"vec_fit", "vec_cover", "returned"} =>
                   bandwidth.den > 0 /\ bandwidth.num > 0
             /\ ~IsNone(kde) =>
                   /\ kde.bandwidth.den > 0 /\ kde.bandwidth.num > 0
                   /\ ~(pc = "raised" /\ model_log_density = <<>>)
        ELSE /\ pc \notin {"vec_cover", "returned"}
             /\ pc \in {"vec_grid", "vec_fit", "raised"} =>
                   bandwidth = Rat(0, 1)
             /\ pc = "vec_grid" =>
                   \A k \in 1..GridSize : b_grid[k] = Rat(0, 1)
             /\ pc = "vec_grid" => idx = 0
             /\ ~IsNone(kde) =>
                   kde.bandwidth = Rat(0, 1) /\ pc = "raised"
             /\ pc = "raised" => ret = Raised("ValueError")

\* a validation batch supplied, a grid candidate other than the median
\* selected and passed to the final fit
C8_Witness ==
    /\ IsVecCall /\ pc = "vec_cover"
    /\ Len(args.fake_points) >= 2 /\ RefMedianNonZero
    /\ ~IsNone(args.validation_fake_points)
    /\ kde.bandwidth.num > 0
    /\ kde.bandwidth # b_grid[GridShift + 1]

\* C9: with a validation batch, once all 14 candidates are scored no
\* candidate has a strictly higher validation score than the candidate
\* whose bandwidth goes to the final fit.
C9_GridSelectsMaximum ==
    (IsVecCall /\ ~IsNone(args.validation_fake_points)
        /\ pc \in {"vec_fit", "vec_cover", "returned"}) =>
        /\ Len(b_grid) = GridSize
        /\ \A k \in 1..GridSize :
              b_grid[k].num * Pow2(GridSize) * b_grid[GridShift + 1].den
                 = b_grid[GridShift + 1].num * Pow2(k - 1 + GridShift)
                      * b_grid[k].den
        /\ ~Lt(grid_log.selected, grid_log.best)

\* C10: _evaluate_vec called with zero or one fake point never returns a
\* (log_likelihood, coverage) tuple, and a discrete evaluation of an empty
\* fake batch fails before any classifier request is made.
C10_DegenerateBatchFails ==
    /\ (IsVecCall /\ Len(args.fake_points) <= 1) => pc # "returned"
    /\ (IsImageCall /\ Len(args.fake_points) = 0) =>
          /\ requests = <<>>
          /\ pc \in {"_evaluate_mnist", "_evaluate_mnist3", "raised"}

\* the dataset kinds Metrics.evaluate dispatches on
RefSupported == {"gmm", "circle_gmm", "mnist", "mnist3"}
\* the call has ended, one way or the other
RefEnded == pc \in {"returned", "raised"} /\ ~IsNone(args)

\* C11: every evaluate call ends with a complete metric tuple or with an
\* error, never with another value, and a call whose dataset kind is not
\* supported ends with an error.
C11_TupleOrError ==
    RefEnded =>
        /\ pc = "returned" => ret.tag = "tuple"
        /\ pc = "raised" => ret.tag = "error"
        /\ args.opts.dataset \notin RefSupported => pc = "raised"

\* C12: once a discrete evaluation call has ended, by a return or by an
\* assertion failure, and ever after, no classifier session it opened is
\* still open.
C12_SessionReleased ==
    pc \in {"returned", "raised", "idle"} => sess \in {"none", "closed"}

\* the labels, the flags and the arrays of the current call, read off the
\* caller's arguments
RefArgLabels ==
    [i \in 1..Len(args.fake_points) |-> RefLabel(args.fake_points[i])]
RefArgFlags ==
    [i \in 1..Len(args.fake_points) |-> RefConfident(args.fake_points[i])]
RefArgArrays ==
    [real_points |-> args.real_points, fake_points |-> args.fake_points,
     validation_fake_points |-> args.validation_fake_points]
RefFirstBandwidth == Median(ConsecutiveDist(args.fake_points))

\* C13: whatever calls came before, a call leaves the fields l2s and Qz of
\* the instance and the caller's three arrays as they were, starts from the
\* bandwidth of its own fake batch, and returns what its own inputs
\* determine.
C13_CallsArePure ==
    /\ self = [l2s |-> None, Qz |-> None]
    /\ ~IsNone(args) => caller = RefArgArrays
    /\ (pc = "returned" /\ IsImageCall) =>
          ret = DiscreteResult(RefArgLabels, RefArgFlags, RefAllProbs,
                               RefLabelSpace)
    /\ (IsVecCall /\ pc \in {"vec_grid", "vec_fit", "vec_cover", "returned"}) =>
          IF IsNone(args.validation_fake_points)
          THEN bandwidth = RefFirstBandwidth
          ELSE /\ b_grid = BGrid(RefFirstBandwidth)
               /\ bandwidth \in {RefFirstBandwidth} \cup Range(b_grid)
    /\ (IsVecCall /\ ~IsNone(kde)) => kde.bandwidth = bandwidth

\* a call under the symmetric convention that fails after the rescaling:
\* the evaluator's own array is rescaled, the caller's array is not
C13_Witness ==
    /\ IsMnistCall /\ pc = "raised"
    /\ args.opts.input_normalize_sym
    /\ ret.what = "Failed to load pre-trained model"
    /\ fake_points # args.fake_points
    /\ caller.fake_points = args.fake_points

\* |x - y| <= 2^-MantBits (half of the machine epsilon of the format), the
\* difference taken exactly
RefWithinTolerance(x, y) ==
    LET t == ExactSum(x, FNeg(y))
        v == F64(t.neg, t.mant, t.exp)
    IN  \/ FIsZero(v)
        \/ Top(v) <= -MantBits
        \/ (v.mant = <<1>> /\ v.exp = -MantBits)
\* 0 <= x <= 1
RefInUnit(x) == FLeq(FZero, x) /\ FLeq(x, FOne)
\* x / 2 + 1 / 2, taken exactly, is a number of the format
RefHalfShiftHeld(x) ==
    LET t == ExactSum(FHalve(x), FHalf)
    IN  BigBitLen(F64(t.neg, t.mant, t.exp).mant) <= MantBits
RefSym == args.opts.input_normalize_sym
RefLoops == {"mnist_loop", "mnist3_loop"}

\* C14 (as stated): under the symmetric convention the forward rescale
\* followed by the backward rescale gives back the original value of every
\* pixel; the forward rescale maps [-1, 1] into [0, 1]; without the
\* convention neither rescale is applied.
C14_RoundTripExact ==
    IsImageCall =>
        /\ (RefSym /\ pc \in RefLoops) =>
              \A i \in 1..Len(fake_points) : RefInUnit(fake_points[i].px)
        /\ (RefSym /\ pc = "returned") => fake_points = args.fake_points
        /\ ~RefSym => fake_points = args.fake_points

\* C14 (amended): under the symmetric convention the forward rescale maps
\* [-1, 1] into [0, 1], and the forward rescale followed by the backward
\* rescale gives back the original value up to the rounding of the floating
\* point format (an absolute error of at most 2^-MantBits), exactly so when
\* x / 2 + 0.5 is a number of the format; without the convention neither
\* rescale is applied.
C14_RoundTripWithinTolerance ==
    IsImageCall =>
        /\ (RefSym /\ pc \in RefLoops) =>
              \A i \in 1..Len(fake_points) : RefInUnit(fake_points[i].px)
        /\ (RefSym /\ pc = "returned") =>
              /\ Len(fake_points) = Len(args.fake_points)
              /\ \A i \in 1..Len(fake_points) :
                    LET x == args.fake_points[i].px
                    IN  /\ fake_points[i].subs = args.fake_points[i].subs
                        /\ RefWithinTolerance(fake_points[i].px, x)
                        /\ RefHalfShiftHeld(x) => fake_points[i].px = x
        /\ ~RefSym => fake_points = args.fake_points

\* a pixel that the round trip moves, by no more than the tolerance
C14_Witness ==
    /\ IsMnistCall /\ RefSym /\ pc = "returned"
    /\ Len(fake_points) = 1
    /\ fake_points[1].px # args.fake_points[1].px
    /\ RefWithinTolerance(fake_points[1].px, args.fake_points[1].px)

\* the confident points that are the first confident one of their label
RefFirstConfident ==
    {i \in RefConfidentIdx :
        \A j \in RefConfidentIdx :
            j < i => RefLabel(args.fake_points[j]) # RefLabel(args.fake_points[i])}
\* the k-th of them in input order
RefFirstConfidentAt(k) ==
    CHOOSE i \in RefFirstConfident :
        Cardinality({j \in RefFirstConfident : j < i}) = k - 1

\* C15: after the mode loop the gathered points are, in input order, the
\* first confident point of every label that some confident point carries,
\* one per label, whether or not an earlier point that is not confident
\* carries the label; the 'modes_' plot of exactly these points is requested
\* if and only if some point is confident.
C15_ModeGathering ==
    (pc = "returned" /\ IsImageCall) =>
        /\ Len(modes.gathered) = Cardinality(RefConfidentLabels)
        /\ Len(modes.points_to_plot) = Cardinality(RefFirstConfident)
        /\ Len(modes.gathered) = Len(modes.points_to_plot)
        /\ \A k \in 1..Len(modes.points_to_plot) :
              LET i == RefFirstConfidentAt(k)
              IN  /\ modes.gathered[k] = RefLabel(args.fake_points[i])
                  /\ modes.points_to_plot[k] = fake_points[i]
                  /\ modes.points_to_plot[k].subs = args.fake_points[i].subs
        /\ IF RefConfidentIdx = {} THEN plots = <<>>
           ELSE plots = <<[prefix |-> "modes_",
                           fake_points |-> modes.points_to_plot]>>

\* label 1 first on a point that is not confident, then on a confident
\* one, then a confident point of label 0: the second and the third point
\* are gathered
C15_Witness ==
    /\ pc = "returned" /\ IsMnistCall
    /\ RefArgLabels = <<1, 1, 0>>
    /\ RefArgFlags = <<FALSE, TRUE, TRUE>>
    /\ modes.gathered = <<1, 0>>
    /\ Len(plots) = 1

\* a call of the image-grid renderer has returned
RefPlotted == pc = "returned" /\ ret.tag = "True" /\ Len(plots) = 1
\* the tiles of the mosaic, column after column, top to bottom
RefTiles == Stack(plots[1].image)
\* the first n tiles are the input pictures in order, the others are blank
RefPicturesThenBlanks ==
    LET n == Len(plots[1].fake_points)
    IN  /\ Len(RefTiles) >= n
        /\ \A i \in 1..Len(RefTiles) :
              IF i <= n
              THEN /\ RefTiles[i].tag = "picture"
                   /\ RefTiles[i].of = plots[1].fake_points[i]
              ELSE RefTiles[i] = Ones

\* C16 (as stated): for n >= 1 pictures and max_rows >= 1, whenever n is not
\* a multiple of max_rows the mosaic holds exactly
\* ceil(n / max_rows) * max_rows tiles, the first n of them the input
\* pictures in order and the rest blank.
C16_PaddedToFullColumns ==
    RefPlotted =>
        LET n == Len(plots[1].fake_points)
            r == plots[1].max_rows
        IN  n % r # 0 =>
               /\ Len(RefTiles) = RefCeil(n, r) * r
               /\ RefPicturesThenBlanks

\* C16 (amended): for n >= 1 pictures and max_rows >= 1 the mosaic has
\* ceil(n / max_rows) columns filled in input order.  With more than one
\* column every column holds max_rows tiles, the last one padded with blank
\* tiles when n is not a multiple of max_rows, so the mosaic holds
\* ceil(n / max_rows) * max_rows tiles; with a single column (n <= max_rows)
\* nothing is padded and the mosaic holds exactly the n pictures.
C16_PaddedWhenSeveralColumns ==
    RefPlotted =>
        LET n == Len(plots[1].fake_points)
            r == plots[1].max_rows
            image == plots[1].image
        IN  /\ n >= 1
            /\ Len(image) = RefCeil(n, r)
            /\ RefPicturesThenBlanks
            /\ IF n > r
               THEN /\ \A c \in 1..Len(image) : Len(image[c]) = r
                    /\ Len(RefTiles) = RefCeil(n, r) * r
               ELSE /\ Len(image) = 1
                    /\ Len(RefTiles) = n

\* seven pictures in rows of three: three columns, nine tiles, two blanks
C16_Witness ==
    /\ RefPlotted
    /\ Len(plots[1].fake_points) = 7 /\ plots[1].max_rows = 3
    /\ Len(plots[1].image) = 3
    /\ Len(RefTiles) = 9
    /\ RefTiles[8] = Ones /\ RefTiles[9] = Ones

\* how many confident points carry the label l
RefConfidentCount(l) ==
    Cardinality({i \in RefConfidentIdx : RefLabel(args.fake_points[i]) = l})
\* the labels whose confident count is the least one over the ten labels
RefLeastLabels ==
    {l \in 0..9 : \A k \in 0..9 : RefConfidentCount(l) <= RefConfidentCount(k)}

\* C17: in the single-label evaluator, when some prediction is confident,
\* the returned coverage is 1 - m / 10 for m the number of labels of 0..9
\* whose confident count is the minimum over the ten labels; so it never
\* exceeds 0.9, and it is 0 when the confident predictions are spread evenly
\* over the ten labels.
C17_SingleLabelCoverage ==
    (pc = "returned" /\ IsMnistCall /\ RefConfidentIdx # {}) =>
        LET m == Cardinality(RefLeastLabels)
        IN  /\ ret.C.den > 0
            /\ ret.C.num * 10 = (10 - m) * ret.C.den
            /\ ret.C.num * 10 <= 9 * ret.C.den
            /\ (\A l \in 0..9 : RefConfidentCount(l) = RefConfidentCount(0)) =>
                  ret.C = Rat(0, 1)

\* ten confident points, one of every label: coverage 0
C17_Witness ==
    /\ pc = "returned" /\ IsMnistCall
    /\ Cardinality(RefConfidentIdx) = 10
    /\ \A l \in 0..9 : RefConfidentCount(l) = 1
    /\ ret.C = Rat(0, 1)

=============================================================================
